---- MODULE Spec2Model ----
(***************************************************************************)
(* Model of the HTTP serve cores of this repository:                       *)
(*   - the slab-based serve of ext/wasi/00_wasi.js (InnerRequest,          *)
(*     mapToCallback, asyncResponse, the wait loop of serve);              *)
(*   - the flash serve of ext/flash2/00_serve.js (request callback,        *)
(*     sendResponse, writeResponseStr, writeResponseBytes).                *)
(* Operations issued to the runtime through core.ops are recorded per      *)
(* request, in the order the JavaScript issues them.                       *)
(***************************************************************************)
EXTENDS Integers, Sequences, FiniteSets, TLC

VARIABLES
  loop,            \* serve wait loop: "waiting", "ended" (break + cleanup), "rejected"
  ctxClosed,       \* context.closed
  ridClosed,       \* core.tryClose(rid) was issued by the abort listener
  nextReq,         \* the next token op_http_wait will deliver
  pc,              \* pc[i]: position of mapToCallback's callback for token i
  inner,           \* inner[i]: the InnerRequest of token i: [slabId, upgraded]
  response,        \* response[i]: what `response` holds in mapToCallback
  ops,             \* ops[i]: operations issued through request i, in issue order
  nread,           \* nread[i]: chunks reader.read() has yielded in asyncResponse
  responseBodies,  \* the SafeSet of response-stream rids (a rid is named by its token)
  streamClosed,    \* response-stream rids closed by the cleanup after the wait loop
  onErrorCalls,    \* onErrorCalls[i]: times onError was invoked for request i
  respHeaders,     \* respHeaders[i]: length of the header list mapToCallback read
                   \*   from the inner response of request i (-1: not read)
  fpc,             \* flash serve: fpc[i], position of request i's callback
  fops,            \* flash serve: fops[i], write operations issued for request i
  wire,            \* flash serve: wire[i], bytes the connection accepted for request i
  others,          \* flash serve: the other servers it started that are still serving
  handled,         \* flash serve: handled[i], how the request callback took the
                   \*   handler's result ("sync", "async") and the body of the response
                   \*   it passed to sendResponse
  stage,           \* flash serve: position of serve: "onListen", "driving", "returned"
  drive,           \* flash serve: the promise of op_flash_drive: "none", "pending",
                   \*   "resolved", "rejected"
  serverClosed,    \* flash serve: server.closed
  flashCloseOps,   \* flash serve: times op_flash_close(serverId) was issued
  aborted,         \* flash serve: the abort listener has run
  finished,        \* flash serve: server.finished has resolved
  date,            \* date loop: [running: the dateTimerRunning flag, loops: loops the
                   \*   runtime is running, issued: the date-loop operations issued]
  fbody,           \* flash serve: the body stream of a request (createRequestBodyStream)
  slab,            \* request slab: slab[t], the request occupying slot t (0: free)
  reqMethod,       \* reqMethod[r]: the method request r carried ("none": not delivered)
  requests,        \* requests[r]: the InnerRequest made for request r and its caches
  accessLog,       \* accessLog[r]: results of the accessors called on requests[r]
  serving,         \* one call of serve: its options, the start operations issued,
                   \*   the address the listener got, the onListen and handler calls
  sent,            \* the response string the slow path of the first flash serve
                   \*   (unnamed/part_000) built for the response the handler gave
  args,            \* the two arguments of the last serve call and what argument
                   \*   resolution made of them
  driver           \* the token-batch driver loop (unnamed/part_011): its position,
                   \*   `offset`, the calls it made and the indices it responded to

objVars == <<slab, reqMethod, requests, accessLog>>
callVars == <<serving, sent, args, driver>>
slabVars == <<loop, ctxClosed, ridClosed, nextReq, pc, inner, response, ops, nread,
              responseBodies, streamClosed, onErrorCalls, respHeaders, slab, reqMethod,
              requests, accessLog>>
serverVars == <<stage, drive, serverClosed, flashCloseOps, aborted, finished>>
flashVars == <<fpc, fops, wire, handled, others, stage, drive, serverClosed, flashCloseOps, aborted,
               finished, date, fbody>>
vars == <<loop, ctxClosed, ridClosed, nextReq, pc, inner, response, ops, nread,
          responseBodies, streamClosed, onErrorCalls, respHeaders, fpc, fops, wire, handled, others, stage,
          drive,
          serverClosed, flashCloseOps, aborted, finished, date, fbody, slab, reqMethod,
          requests, accessLog, serving, sent, args,
          driver>>

\* ------------------------------------------------------------------ bounds
MaxReq == 2        \* requests delivered to one serve
MaxHeaders == 2    \* length of a response's header list
MaxChunks == 2     \* chunks a stream producer yields
MaxLen == 3        \* length of an inline response body (flash serve)
MaxDateOps == 4    \* date-loop operations issued through createServe calls
MaxObj == 2        \* requests delivered over the slab, each with its InnerRequest
MaxAccess == 2     \* accessor calls made on one InnerRequest
MaxPort == 2       \* port numbers a caller of serve names (0: any free port)
MaxServers == 2    \* servers one flash serve runs next to the one followed
MaxBatch == 2      \* requests one nextRequest or op_flash_next_async reports
MaxIter == 3       \* iterations of the token-batch driver loop

Tokens == 1..MaxReq
Undefined == 0     \* the value of #slabId after close(): no token

\* the status of the Response the default onError returns
DefaultErrorStatus == 500
\* the status of a Response built without an explicit status
OkStatus == 200

\* ------------------------------------------------------------- responses
BodyKinds == {"null", "bytes", "text", "resource", "stream", "invalid"}
Responses == [status : {OkStatus}, nheaders : 0..MaxHeaders, body : BodyKinds]
\* a handler result that toInnerResponse rejects
NotAResponse == [status |-> 0, nheaders |-> 0, body |-> "not_a_response"]
HandlerResults == Responses \cup {NotAResponse}

\* the onError response with the default status instead of 500
DefaultOnErrorResponse_ok ==
  [status |-> OkStatus, nheaders |-> 1, body |-> "text"]

\* new Response("Internal Server Error", { status: 500 }): a text body and the
\* content-type header the Response constructor derives from it
DefaultOnErrorResponse ==
  [status |-> DefaultErrorStatus, nheaders |-> 1, body |-> "text"]

Op(name, tok, arg) == <<name, tok, arg>>

ResponseOpNames ==
  {"op_set_response_header", "op_set_response_headers",
   "op_set_response_body_bytes", "op_set_response_body_text",
   "op_set_response_body_resource", "op_set_response_body_stream",
   "op_set_promise_complete", "write", "stream_close"}

\* ----------------------------------------------------------- InnerRequest
\* constructor(slabId, context)
InnerRequest(slabId) == [slabId |-> slabId, upgraded |-> FALSE]

\* close(): drops the slab token
close(r) == [r EXCEPT !.slabId = Undefined]

\* the accessor with the upgrade mark ignored
upgraded_never(r) == FALSE

\* get [_upgraded]()
upgraded(r) == r.upgraded

UpgradeTypes == {"upgradeHttp", "upgradeHttpRaw", "upgradeWebSocket"}

\* [_wantsUpgrade](upgradeType, ...originalArgs): the request after the call, the
\* operations it issued, and whether it threw. The token of each operation is the
\* value of #slabId when the operation's arguments are evaluated.
wantsUpgrade(r, upgradeType) ==
  LET marked == [r EXCEPT !.upgraded = TRUE] IN
  IF upgradeType \in {"upgradeHttp", "upgradeHttpRaw"}
    THEN [inner |-> marked, issued |-> <<>>, threw |-> TRUE]
  ELSE IF marked.slabId = Undefined
    \* this.headerList on a closed request: TypeError("request closed")
    THEN [inner |-> marked, issued |-> <<>>, threw |-> TRUE]
  ELSE
    LET closed == close(marked) IN
    [inner |-> closed,
     issued |-> << Op("op_get_request_headers", marked.slabId, 0),
                   Op("close", marked.slabId, 0),
                   Op("op_upgrade", closed.slabId, 0) >>,
     threw |-> FALSE]

\* ------------------------------------------------------- response writing
\* the header operations with one single-header op for every pair of the list
HeaderOps_perPair(req, n) == [k \in 1..n |-> Op("op_set_response_header", req, 1)]

\* mapToCallback, the header operations: none, the single-header op, or the batch op
HeaderOps(req, n) ==
  IF n = 0 THEN <<>>
  ELSE IF n = 1 THEN << Op("op_set_response_header", req, 1) >>
  ELSE << Op("op_set_response_headers", req, n) >>

\* fastSyncResponseOrStream(req, respBody): the body operation issued and the
\* result: "null" (body handled), "stream" (the stream is returned), "throw"
fastSyncResponseOrStream(req, body) ==
  CASE body = "null"     -> [issued |-> <<>>, result |-> "null"]
    [] body = "bytes"    -> [issued |-> << Op("op_set_response_body_bytes", req, 0) >>,
                             result |-> "null"]
    [] body = "text"     -> [issued |-> << Op("op_set_response_body_text", req, 0) >>,
                             result |-> "null"]
    [] body = "resource" -> [issued |-> << Op("op_set_response_body_resource", req, 0) >>,
                             result |-> "null"]
    [] body = "stream"   -> [issued |-> <<>>, result |-> "stream"]
    [] OTHER             -> [issued |-> <<>>, result |-> "throw"]

\* asyncResponse with the completion mark left out of its first part
asyncResponseStart_noComplete(req, status) ==
  << Op("op_set_response_body_stream", req, 0) >>

\* asyncResponse, up to its first await: the response-stream resource is created
\* and the token is marked complete
asyncResponseStart(req, status) ==
  << Op("op_set_response_body_stream", req, 0),
     Op("op_set_promise_complete", req, status) >>

\* the end of asyncResponse with the token marked complete a second time
asyncResponseEnd_completes(req) ==
  << Op("stream_close", req, 0), Op("op_set_promise_complete", req, OkStatus) >>

\* asyncResponse, after the pump loop ended without a pending exception
asyncResponseEnd(req) == << Op("stream_close", req, 0) >>

\* the inline tail with the handle closed before the completion mark
respondInline_closeFirst(req, status) ==
  << Op("close", req, 0), Op("op_set_promise_complete", req, status) >>

\* mapToCallback, an inline body: the token is marked complete, then the request
\* handle is closed
respondInline(req, status) ==
  << Op("op_set_promise_complete", req, status), Op("close", req, 0) >>

\* mapToCallback's async function from `await response` to its next await or its
\* end, for the settled value v of `response`; r is the InnerRequest and
\* contextClosed is context.closed when it runs.
\*   next: where the function is afterwards: "reading" (in asyncResponse), or
\*     where it ended: "failed" (the catch block ran onError(e)), "upgraded"
\*     (the return of the upgraded branch), "shutdown" (the return of the
\*     context.closed branch), "done" (its last statement);
\*   closes: innerRequest.close() was called; caught: the catch block ran;
\*   headers: the length of inner.headerList when the function read it.
Rejected == [status |-> 0, nheaders |-> 0, body |-> "rejected"]
\* `const headers = inner.headerList` has not run
NotRead == 0 - 1

mapToCallbackAsync(req, v, r, contextClosed) ==
  IF v.body \in {"rejected", "not_a_response"}
    \* toInnerResponse(await response) throws
    THEN [issued |-> <<>>, next |-> "failed", closes |-> FALSE, caught |-> TRUE,
          headers |-> NotRead]
  ELSE IF upgraded(r)
    THEN [issued |-> <<>>, next |-> "upgraded", closes |-> FALSE, caught |-> FALSE,
          headers |-> NotRead]
  ELSE IF contextClosed
    THEN [issued |-> << Op("close", req, 0) >>, next |-> "shutdown",
          closes |-> TRUE, caught |-> FALSE, headers |-> NotRead]
  ELSE
    LET hs == HeaderOps(req, v.nheaders)
        f == fastSyncResponseOrStream(req, v.body)
    IN
    IF f.result = "throw"
      THEN [issued |-> hs \o f.issued, next |-> "failed", closes |-> FALSE,
            caught |-> TRUE, headers |-> v.nheaders]
    ELSE IF f.result = "stream"
      THEN [issued |-> hs \o f.issued \o asyncResponseStart(req, v.status),
            next |-> "reading", closes |-> FALSE, caught |-> FALSE,
            headers |-> v.nheaders]
    ELSE [issued |-> hs \o f.issued \o respondInline(req, v.status),
          next |-> "done", closes |-> TRUE, caught |-> FALSE, headers |-> v.nheaders]

\* Positions at which the callback of mapToCallback has ended for a request:
\* "thrown" (onError threw in the synchronous part), and the ends of its async
\* function.
Terminal == {"thrown", "failed", "upgraded", "shutdown", "done"}

\* -------------------------------------------- InnerRequest: the accessors
Objs == 1..MaxObj
Methods == {"GET", "HEAD", "POST"}

\* the private fields of an InnerRequest next to #slabId and #upgraded:
\* #methodAndUri (with the request it was fetched from), #body, #streamRid,
\* #headers (the RequestHeaders object, once made, and its own #slabId)
NotCached == [cached |-> FALSE, method |-> "none", of |-> 0]
UndefinedBody == [kind |-> "undefined", of |-> 0, n |-> 0]
NoHeaders == [made |-> FALSE, slabId |-> Undefined]

\* new RequestHeaders(slabId): the class declares #slabId and no constructor, so
\* the argument is dropped and #slabId stays undefined
RequestHeaders(slabId) == [made |-> TRUE, slabId |-> Undefined]
NullBody == [kind |-> "null", of |-> 0, n |-> 0]
NoObject ==
  [inner |-> [slabId |-> Undefined, upgraded |-> FALSE], methodAndUri |-> NotCached,
   body |-> UndefinedBody, streamRid |-> Undefined, headers |-> NoHeaders]

\* new InnerRequest(req, context)
NewObject(slabId) == [NoObject EXCEPT !.inner = InnerRequest(slabId)]

\* close(): the body stream resource is closed and the token dropped
closeRequest(o) == [o EXCEPT !.inner = close(@), !.streamRid = Undefined]

\* What an accessor gives: res is "throw", "null", "value" or "object" (the
\* RequestHeaders object); of is the request whose data the value holds; n tells
\* InnerBody objects apart; issued is the operation the call issued ("none": it
\* issued none) and tok the token it was issued with.
Threw(o) ==
  [obj |-> o, res |-> "throw", of |-> 0, n |-> 0, issued |-> "none", tok |-> Undefined]

\* the runtime's answer for token t: the data of the request now in slot t
\* (a call on a free slot fails)
SlotOf(t) == slab[t]

\* get method(): cached in #methodAndUri, else fetched for #slabId
method(o) ==
  IF o.methodAndUri.cached
    THEN [obj |-> o, res |-> "value", of |-> o.methodAndUri.of, n |-> 0,
          issued |-> "none", tok |-> Undefined]
  ELSE IF o.inner.slabId = Undefined \/ SlotOf(o.inner.slabId) = 0
    THEN Threw(o)
  ELSE
    LET k == SlotOf(o.inner.slabId) IN
    [obj |-> [o EXCEPT !.methodAndUri =
                [cached |-> TRUE, method |-> reqMethod[k], of |-> k]],
     res |-> "value", of |-> k, n |-> 0, issued |-> "op_get_request_method_and_url",
     tok |-> o.inner.slabId]

\* get remoteAddr(), read by mapToCallback when it calls the handler: the same
\* fetch and cache of #methodAndUri
remoteAddrOf(o) == method(o).obj

\* the method test with GET and HEAD treated as any other method
hasNoBody_never(m) == FALSE

\* get body(): this.method == "GET" || this.method == "HEAD"
hasNoBody(m) == m \in {"GET", "HEAD"}

\* the test of the #body cache never finding a cached body
bodyCached_never(o) == FALSE

\* get body(): this.#body !== undefined
bodyCached(o) == o.body.kind # "undefined"

\* get body(), for the k-th accessor call on the object
body(o, k) ==
  IF o.inner.slabId = Undefined
    THEN Threw(o)
  ELSE IF bodyCached(o)
    THEN [obj |-> o, res |-> IF o.body.kind = "null" THEN "null" ELSE "value",
          of |-> o.body.of, n |-> o.body.n, issued |-> "none", tok |-> Undefined]
  ELSE
    LET m == method(o) IN
    IF m.res = "throw" THEN Threw(o)
    ELSE IF hasNoBody(m.obj.methodAndUri.method)
      THEN [obj |-> [m.obj EXCEPT !.body = NullBody], res |-> "null", of |-> 0,
            n |-> 0, issued |-> "none", tok |-> Undefined]
    ELSE IF SlotOf(o.inner.slabId) = 0 THEN Threw(m.obj)
    ELSE
      LET occ == SlotOf(o.inner.slabId) IN
      [obj |-> [m.obj EXCEPT !.streamRid = occ,
                             !.body = [kind |-> "InnerBody", of |-> occ, n |-> k]],
       res |-> "value", of |-> occ, n |-> k, issued |-> "op_read_request_body",
       tok |-> o.inner.slabId]

\* get headerList(): fetched for #slabId on every call
headerList(o) ==
  IF o.inner.slabId = Undefined \/ SlotOf(o.inner.slabId) = 0
    THEN Threw(o)
    ELSE [obj |-> o, res |-> "value", of |-> SlotOf(o.inner.slabId), n |-> 0,
          issued |-> "op_get_request_headers", tok |-> o.inner.slabId]

\* get headers(): the RequestHeaders object, made on the first call and returned
\* from #headers afterwards
headers(o) ==
  IF o.headers.made
    THEN [obj |-> o, res |-> "object", of |-> 0, n |-> 0, issued |-> "none",
          tok |-> Undefined]
  ELSE IF o.inner.slabId = Undefined
    THEN Threw(o)
  ELSE [obj |-> [o EXCEPT !.headers = RequestHeaders(o.inner.slabId)],
        res |-> "object", of |-> 0, n |-> 0, issued |-> "none", tok |-> Undefined]

\* op_get_request_header (runtime side): a header value of the request in the slot
\* of the token, and a failure for a value that names no occupied slot
op_get_request_header(tok) ==
  IF tok = Undefined \/ SlotOf(tok) = 0
    THEN [res |-> "throw", of |-> 0]
    ELSE [res |-> "value", of |-> SlotOf(tok)]

\* request.headers.get(header): RequestHeaders.get on the object the headers
\* accessor gives, which issues op_get_request_header with its own #slabId
headersGet(o) ==
  LET h == headers(o) IN
  IF h.res = "throw" THEN h
  ELSE
    LET v == op_get_request_header(h.obj.headers.slabId) IN
    [obj |-> h.obj, res |-> v.res, of |-> v.of, n |-> 0,
     issued |-> "op_get_request_header", tok |-> h.obj.headers.slabId]

Accessors == {"method", "body", "headerList", "headers", "headers.get"}

\* the call of accessor acc on object o, as its k-th accessor call
Access(o, acc, k) ==
  CASE acc = "method"     -> method(o)
    [] acc = "body"       -> body(o, k)
    [] acc = "headerList" -> headerList(o)
    [] acc = "headers"    -> headers(o)
    [] acc = "headers.get" -> headersGet(o)

\* ----------------------------------- flash serve: createRequestBodyStream
NoBodyStream ==
  [state |-> "none", n |-> 0, first |-> 0, firstEnqueued |-> FALSE, got |-> 0,
   yielded |-> <<>>, issued |-> <<>>]

\* createRequestBodyStream(requestId) for a body of n bytes of which the first
\* packet (the bytes left over after parsing) holds the first f
createRequestBodyStream(n, f) ==
  [state |-> "open", n |-> n, first |-> f, firstEnqueued |-> (f = 0), got |-> f,
   yielded |-> <<>>,
   issued |-> << "op_flash_get_has_body", "op_flash_first_packet" >>]

\* TypedArrayPrototypeSubarray(chunk, 0, read): the name is not among the
\* primordials the file takes (PromisePrototype..., Uint8ArrayPrototype) and is no
\* global, so evaluating it throws a ReferenceError
TypedArrayPrototypeSubarray(from, to) == [threw |-> TRUE, bytes |-> <<>>]

\* op_flash_read_body (runtime side): the sizes of the next chunk it can return
\* once `got` of the n body bytes were handed over; 0 at the end of the body
op_flash_read_body(b) == IF b.got < b.n THEN 1..(b.n - b.got) ELSE {0}

\* pull(controller) when op_flash_read_body returns `read` (not used for the
\* first packet)
pull(b, read) ==
  IF ~b.firstEnqueued
    THEN [b EXCEPT !.firstEnqueued = TRUE,
                   !.yielded = @ \o [x \in 1..b.first |-> x]]
  ELSE IF read > 0
    THEN LET sub == TypedArrayPrototypeSubarray(b.got + 1, b.got + read)
             after == [b EXCEPT !.got = @ + read,
                                !.issued = Append(@, "op_flash_read_body")]
         IN IF sub.threw
              \* catch: controller.error(err)
              THEN [after EXCEPT !.state = "errored"]
              ELSE [after EXCEPT !.yielded = @ \o sub.bytes]
  ELSE [b EXCEPT !.state = "closed", !.issued = Append(@, "op_flash_read_body")]

\* ---------------------------------------------------------- serve: start-up
\* An option the caller left out
Omitted == "omitted"
Loopback == "127.0.0.1"
AllInterfaces == "0.0.0.0"
HostnameArgs == {Omitted, Loopback, AllInterfaces, "host.example"}
NoPort == 0 - 1
PortArgs == {NoPort} \cup 0..MaxPort
CertArgs == {Omitted, "pem"}
Options == [hostname : HostnameArgs, port : PortArgs, cert : CertArgs, key : CertArgs]

\* the default ports of the flash serve and of the slab-based serve
FlashDefaultPort == 4500
SlabDefaultPort == 9000

\* createServe, listenOpts: options.hostname ?? "127.0.0.1", options.port ?? 4500
flashListenOpts(options) ==
  [hostname |-> IF options.hostname = Omitted THEN Loopback ELSE options.hostname,
   port |-> IF options.port = NoPort THEN FlashDefaultPort ELSE options.port]

\* serve, listenOpts: options.hostname ?? "0.0.0.0", options.port ?? 9000
listenOpts(options) ==
  [hostname |-> IF options.hostname = Omitted THEN AllInterfaces ELSE options.hostname,
   port |-> IF options.port = NoPort THEN SlabDefaultPort ELSE options.port]

\* the truthiness of options.cert and options.key
given(x) == x # Omitted

\* the cert/key test without its inner throw
certAndKey_unchecked(options) ==
  IF given(options.cert) /\ given(options.key) THEN "tls" ELSE "plain"

\* if (options.cert || options.key) { if (!options.cert || !options.key) throw ... }
certAndKey(options) ==
  IF given(options.cert) \/ given(options.key)
    THEN IF ~given(options.cert) \/ ~given(options.key) THEN "throw" ELSE "tls"
    ELSE "plain"

\* the listener (runtime side): it binds the hostname asked for, and the port
\* asked for or, for port 0, a free port e
NoAddr == [hostname |-> "", port |-> NoPort]
listenerAddr(lo, e) ==
  [hostname |-> lo.hostname, port |-> IF lo.port = 0 THEN e ELSE lo.port]

\* a start operation as issued, with the address it was asked to bind
StartOp(name, lo) == [op |-> name, hostname |-> lo.hostname, port |-> lo.port]
BindOps == {"op_flash_start", "Deno.listen", "Deno.listenTls"}
StartOps == BindOps \cup {"op_serve_http", "op_flash_drive"}

OnListen(port) == [ev |-> "onListen", port |-> port]
HandlerCall == [ev |-> "handler", port |-> NoPort]

NotServing ==
  [serve |-> "none", stage |-> "none",
   options |-> [hostname |-> Omitted, port |-> NoPort, cert |-> Omitted, key |-> Omitted],
   issued |-> <<>>, addr |-> NoAddr, events |-> <<>>]

\* onListen called with the port the caller asked for
onListenArg_requested(lo, port) == lo.port

\* createServe: onListen({ hostname: listenOpts.hostname, port }), port being the
\* one op_flash_start returned
onListenArg(lo, port) == port

\* createServe(options, handler) of the flash serve up to `await serverPromise`:
\* the cert/key test, op_flash_start (which fails when ok is false), onListen,
\* op_flash_drive
flashServe(options, e, ok) ==
  LET lo == flashListenOpts(options)
      started == [NotServing EXCEPT !.serve = "flash", !.options = options]
  IN
  IF certAndKey(options) = "throw" THEN [started EXCEPT !.stage = "threw"]
  ELSE IF ~ok
    THEN [started EXCEPT !.stage = "failed",
                         !.issued = << StartOp("op_flash_start", lo) >>]
  ELSE
    LET addr == listenerAddr(lo, e) IN
    [started EXCEPT !.stage = "serving",
                    !.issued = << StartOp("op_flash_start", lo),
                                  StartOp("op_flash_drive", NoAddr) >>,
                    !.addr = addr,
                    !.events = << OnListen(onListenArg(lo, addr.port)) >>]

\* serve(options, handler) of the slab-based serve up to its wait loop: the
\* cert/key test, Deno.listenTls or Deno.listen (which fails when ok is false),
\* listenOpts.port = listener.addr.port, op_serve_http, onListen
slabServe(options, e, ok) ==
  LET lo == listenOpts(options)
      tls == certAndKey(options)
      bind == IF tls = "tls" THEN "Deno.listenTls" ELSE "Deno.listen"
      started == [NotServing EXCEPT !.serve = "slab", !.options = options]
  IN
  IF tls = "throw" THEN [started EXCEPT !.stage = "threw"]
  ELSE IF ~ok
    THEN [started EXCEPT !.stage = "failed", !.issued = << StartOp(bind, lo) >>]
  ELSE
    LET addr == listenerAddr(lo, e) IN
    [started EXCEPT !.stage = "serving",
                    !.issued = << StartOp(bind, lo), StartOp("op_serve_http", NoAddr) >>,
                    !.addr = addr,
                    !.events = << OnListen(addr.port) >>]

\* ------------------------------------------------ serve: argument resolution
\* The values serve is called with: a function, undefined, or an options object
\* whose handler field is a function, absent or something else.
Fn == [type |-> "function", handler |-> "none"]
Undef == [type |-> "undefined", handler |-> "none"]
Obj(h) == [type |-> "object", handler |-> h]
ArgValues == {Fn, Undef} \cup {Obj(h) : h \in {"function", "undefined", "string"}}

\* the value of options.handler
handlerField(options) == [type |-> options.handler, handler |-> "none"]

\* the empty options bag `{}`
EmptyBag == Obj("undefined")

NoCall ==
  [called |-> FALSE, arg1 |-> Undef, arg2 |-> Undef, threw |-> FALSE,
   handler |-> Undef, options |-> Undef]

\* the handler test accepting any value
notAFunction_never(handler) == FALSE

\* typeof handler !== "function"
notAFunction(handler) == handler.type # "function"

\* argsToOptions(arg1, arg2), and the same statements at the head of the
\* slab-based serve
argsToOptions(arg1, arg2) ==
  LET first == IF arg1.type = "function" THEN [handler |-> arg1, options |-> arg2]
               ELSE IF arg2.type = "function" THEN [handler |-> arg2, options |-> arg1]
               ELSE [handler |-> Undef, options |-> arg1]
      call == [NoCall EXCEPT !.called = TRUE, !.arg1 = arg1, !.arg2 = arg2]
  IN
  IF first.handler = Undef /\ first.options = Undef
    THEN [call EXCEPT !.threw = TRUE]
  ELSE
    LET handler == IF first.handler = Undef THEN handlerField(first.options)
                   ELSE first.handler
    IN
    IF notAFunction(handler)
      THEN [call EXCEPT !.threw = TRUE]
      ELSE [call EXCEPT !.handler = handler,
                        !.options = IF first.options = Undef THEN EmptyBag
                                    ELSE first.options]

\* the option fields a resolved options value can carry: the empty bag and a
\* function have none
AllOmitted == [hostname |-> Omitted, port |-> NoPort, cert |-> Omitted, key |-> Omitted]
OptionsOf(options) ==
  IF options.type = "object" /\ options # EmptyBag THEN Options ELSE {AllOmitted}

\* ------------------------------------------------- createResponseString
\* the Content-Length the template of createResponseString writes
LiteralContentLength == 13
Statuses == {OkStatus, DefaultErrorStatus}
\* the literal-body responses given to createResponseString: byte b of a body is
\* named b
LiteralResponses == [status : Statuses, body : {[b \in 1..n |-> b] : n \in 0..MaxLen}]
NoText == [statusLines |-> <<>>, contentLength |-> 0, body |-> <<>>]
NothingSent ==
  [made |-> FALSE, threw |-> FALSE, res |-> [status |-> 0, body |-> <<>>],
   text |-> NoText]

\* createResponseString(res): the template names `now`, which the file does not
\* declare: reading it throws a ReferenceError unless the global scope binds it.
\* The text has one status line, then Date, Content-Length (the literal 13),
\* Content-Type, an empty line and the body.
createResponseString(res, nowBound) ==
  IF ~nowBound
    THEN [made |-> TRUE, threw |-> TRUE, res |-> res, text |-> NoText]
    ELSE [made |-> TRUE, threw |-> FALSE, res |-> res,
          text |-> [statusLines |-> << res.status >>,
                    contentLength |-> LiteralContentLength,
                    body |-> res.body]]

\* ----------------------------------------------- token-batch driver loop
\* a call of the driver and the count of requests it reported (NoCount: the
\* suspending wait has not resolved yet)
NoCount == 0 - 1
BatchCall(name, n) == [op |-> name, n |-> n]

\* `let offset = 0` before the loop
DriverStart == [pc |-> "top", offset |-> 0, calls |-> <<>>, responded |-> <<>>]

\* the indices of a batch counted from 0 whatever the offset
batchIndices_fromZero(offset, token) == [k \in 1..token |-> k - 1]

\* for (let i = offset; i < offset + token; i++): the indices respond is called with
batchIndices(offset, token) == [k \in 1..token |-> offset + k - 1]

\* the rest of an iteration once `token` is known: the respond calls and
\* offset += token
respondBatch(d, token) ==
  [d EXCEPT !.pc = "top",
            !.responded = @ \o batchIndices(d.offset, token),
            !.offset = @ + token]

\* the head of an iteration: nextRequest() reported n requests; for 0 the loop
\* issues op_flash_next_async and awaits it
tryNext(d, n) ==
  LET called == [d EXCEPT !.calls = Append(@, BatchCall("nextRequest", n))] IN
  IF n = 0
    THEN [called EXCEPT !.pc = "waiting",
                        !.calls = Append(@, BatchCall("op_flash_next_async", NoCount))]
    ELSE respondBatch(called, n)

\* op_flash_next_async resolves with m requests
nextAsync(d, m) ==
  respondBatch([d EXCEPT !.calls[Len(d.calls)] = BatchCall("op_flash_next_async", m)], m)

\* ------------------------------------------------------------------- Init
\* The state once serve has bound the listener, registered the abort listener and
\* entered the wait loop. The flash serve has bound its listener (op_flash_start),
\* registered the abort listener and is calling onListen; no date loop runs.
\* The start-up of a serve call is followed separately, in `serving`, from before
\* the call; no response string has been built.
NoRequest == [slabId |-> Undefined, upgraded |-> FALSE]
\* flash serve: the request callback has not taken a result of the handler
NotHandled == [how |-> "none", body |-> "none"]

Init ==
  /\ loop = "waiting"
  /\ ctxClosed = FALSE
  /\ ridClosed = FALSE
  /\ nextReq = 1
  /\ pc = [i \in Tokens |-> "idle"]
  /\ inner = [i \in Tokens |-> NoRequest]
  /\ response = [i \in Tokens |-> "none"]
  /\ ops = [i \in Tokens |-> <<>>]
  /\ nread = [i \in Tokens |-> 0]
  /\ responseBodies = {}
  /\ streamClosed = {}
  /\ onErrorCalls = [i \in Tokens |-> 0]
  /\ respHeaders = [i \in Tokens |-> NotRead]
  /\ fpc = [i \in Tokens |-> "idle"]
  /\ fops = [i \in Tokens |-> <<>>]
  /\ wire = [i \in Tokens |-> <<>>]
  /\ handled = [i \in Tokens |-> NotHandled]
  /\ others = 0
  /\ stage = "onListen"
  /\ drive = "none"
  /\ serverClosed = FALSE
  /\ flashCloseOps = 0
  /\ aborted = FALSE
  /\ finished = FALSE
  /\ date = [running |-> FALSE, loops |-> 0, issued |-> <<>>]
  /\ fbody = NoBodyStream
  /\ slab = [t \in Tokens |-> 0]
  /\ reqMethod = [r \in Objs |-> "none"]
  /\ requests = [r \in Objs |-> NoObject]
  /\ accessLog = [r \in Objs |-> <<>>]
  /\ serving = NotServing
  /\ sent = NothingSent
  /\ driver = DriverStart
  /\ args = NoCall

\* The connection a request arrives on: requests 1 and 2 are pipelined on one
\* keep-alive connection, the next two on another, and so on.
connection(i) == (i + 1) \div 2

\* ------------------------------------------------- slab-based serve: steps
\* op_http_wait (runtime side): the token it resolves with while the server
\* resource is open; requests are delivered in arrival order, a later one without
\* waiting for the responses of earlier ones.
op_http_wait == IF ~ridClosed /\ nextReq <= MaxReq THEN {nextReq} ELSE {}

\* What the user handler does when called: an upgrade request it may make on the
\* request object, and how the call ends.
HandlerUpgrades == UpgradeTypes \cup {"none"}
\* ("return": it returns a Response, another value, or a promise of one, which
\* `await response` settles later)
HandlerEnds == {"return", "throw"}
\* What onError does when called: the default returns its 500 response, a
\* user-supplied options.onError may throw instead.
OnErrorEnds == {"return", "throw"}

\* the handler's upgrade call on request r, or none
handlerUpgrade(r, u) ==
  IF u = "none" THEN [inner |-> r, issued |-> <<>>, threw |-> FALSE]
  ELSE wantsUpgrade(r, u)

\* mapToCallback reads innerRequest.remoteAddr for the handler's second argument,
\* which fetches and caches the method and URL of the request
remoteAddr(req) == << Op("op_get_request_method_and_url", req, 0) >>

\* the wait loop with callback(req) awaited before the next op_http_wait
afterCallback_awaited(failed) == IF failed THEN "rejected" ELSE "blocked"

\* serve, the wait loop after `callback(req)`: the promise the callback returns
\* is dropped and the loop goes back to op_http_wait; an exception thrown by the
\* synchronous part of the callback leaves the loop
afterCallback(failed) == IF failed THEN "rejected" ELSE "waiting"

\* One iteration of the wait loop: op_http_wait resolves with token i and
\* callback(req) runs mapToCallback up to the first await of its async function.
\* A handler that throws synchronously goes through onError; an onError that
\* throws there ends serve with that exception (callback(req) is not guarded).
Dispatch(i) ==
  /\ loop = "waiting"
  /\ i \in op_http_wait
  /\ \E u \in HandlerUpgrades, h \in HandlerEnds, e \in OnErrorEnds :
       LET up == handlerUpgrade(InnerRequest(i), u)
           threw == h = "throw"
           failed == threw /\ e = "throw"
       IN
       /\ inner' = [inner EXCEPT ![i] = up.inner]
       /\ ops' = [ops EXCEPT ![i] = remoteAddr(i) \o up.issued]
       /\ onErrorCalls' = [onErrorCalls EXCEPT ![i] = IF threw THEN 1 ELSE 0]
       /\ response' = [response EXCEPT ![i] =
            IF failed THEN "none" ELSE IF threw THEN "onError" ELSE "returned"]
       /\ pc' = [pc EXCEPT ![i] = IF failed THEN "thrown" ELSE "awaiting"]
       /\ loop' = afterCallback(failed)
  /\ nextReq' = nextReq + 1
  /\ UNCHANGED <<ctxClosed, ridClosed, nread, responseBodies, streamClosed,
                 respHeaders>>
  /\ UNCHANGED flashVars
  /\ UNCHANGED callVars
  /\ UNCHANGED objVars

\* The handler, still running (its promise is pending), asks for an upgrade; the
\* url() call of upgradeWebSocket finds the method and URL cached.
UpgradeWhilePending(i) ==
  /\ pc[i] = "awaiting"
  /\ response[i] = "returned"
  /\ ~upgraded(inner[i])
  /\ \E u \in UpgradeTypes :
       LET up == wantsUpgrade(inner[i], u) IN
       /\ inner' = [inner EXCEPT ![i] = up.inner]
       /\ ops' = [ops EXCEPT ![i] = @ \o up.issued]
  /\ UNCHANGED <<loop, ctxClosed, ridClosed, nextReq, pc, response, nread,
                 responseBodies, streamClosed, onErrorCalls, respHeaders>>
  /\ UNCHANGED flashVars
  /\ UNCHANGED callVars
  /\ UNCHANGED objVars

\* The values `await response` can settle to: the response onError returned, or
\* what the handler returned or its promise settles to.
Settled(kind) ==
  CASE kind = "onError"  -> {DefaultOnErrorResponse}
    [] kind = "returned" -> HandlerResults \cup {Rejected}
    [] OTHER             -> {}

\* `await response` settles and the async function of mapToCallback runs to its
\* next await (inside asyncResponse) or to its end. (When onError throws inside
\* the catch block, the promise of the async function rejects; nothing awaits it.)
Continue(i) ==
  /\ pc[i] = "awaiting"
  /\ \E v \in Settled(response[i]) :
       LET step == mapToCallbackAsync(i, v, inner[i], ctxClosed) IN
       /\ ops' = [ops EXCEPT ![i] = @ \o step.issued]
       /\ pc' = [pc EXCEPT ![i] = step.next]
       /\ inner' = [inner EXCEPT ![i] = IF step.closes THEN close(@) ELSE @]
       /\ onErrorCalls' = [onErrorCalls EXCEPT ![i] = IF step.caught THEN @ + 1 ELSE @]
       /\ responseBodies' = IF step.next = "reading"
                            THEN responseBodies \cup {i} ELSE responseBodies
       /\ respHeaders' = [respHeaders EXCEPT ![i] = step.headers]
  /\ UNCHANGED <<loop, ctxClosed, ridClosed, nextReq, response, nread,
                 streamClosed>>
  /\ UNCHANGED flashVars
  /\ UNCHANGED callVars
  /\ UNCHANGED objVars

\* the write with a stale chunk (the first one) instead of the chunk just read
writeChunk_stale(req, value) == << Op("write", req, 1) >>

\* asyncResponse: writer.write(value) of the chunk just read
writeChunk(req, value) == << Op("write", req, value) >>

\* asyncResponse: `await reader.read()` resolves with the next chunk (the k-th
\* chunk is named k), with done, or rejects.
ReaderRead(i) ==
  /\ pc[i] = "reading"
  /\ \/ /\ nread[i] < MaxChunks
        /\ nread' = [nread EXCEPT ![i] = @ + 1]
        /\ pc' = [pc EXCEPT ![i] = "writing"]
        /\ UNCHANGED <<ops, responseBodies>>
     \/ \* done: break, finally, responseStream.close()
        /\ pc' = [pc EXCEPT ![i] = "streamed"]
        /\ responseBodies' = responseBodies \ {i}
        /\ ops' = [ops EXCEPT ![i] = @ \o asyncResponseEnd(i)]
        /\ UNCHANGED nread
     \/ \* the producer fails: catch
        /\ pc' = [pc EXCEPT ![i] = "cancelling"]
        /\ UNCHANGED <<ops, responseBodies, nread>>
  /\ UNCHANGED <<loop, ctxClosed, ridClosed, nextReq, inner, response,
                 streamClosed, onErrorCalls, respHeaders>>
  /\ UNCHANGED flashVars
  /\ UNCHANGED callVars
  /\ UNCHANGED objVars

\* asyncResponse: `await writer.write(value)` resolves, or rejects (the transport
\* is gone, or the response-stream resource was closed by the shutdown cleanup).
WriterWrite(i) ==
  /\ pc[i] = "writing"
  /\ \/ /\ i \notin streamClosed
        /\ ops' = [ops EXCEPT ![i] = @ \o writeChunk(i, nread[i])]
        /\ pc' = [pc EXCEPT ![i] = "reading"]
     \/ /\ pc' = [pc EXCEPT ![i] = "cancelling"]
        /\ UNCHANGED ops
  /\ UNCHANGED <<loop, ctxClosed, ridClosed, nextReq, inner, response, nread,
                 responseBodies, streamClosed, onErrorCalls, respHeaders>>
  /\ UNCHANGED flashVars
  /\ UNCHANGED callVars
  /\ UNCHANGED objVars

\* asyncResponse: `await reader.cancel(error)` in the catch block resolves (finally,
\* then responseStream.close()) or rejects (finally, then the exception leaves
\* asyncResponse and reaches the catch block of mapToCallback: onError(e)).
ReaderCancel(i) ==
  /\ pc[i] = "cancelling"
  /\ responseBodies' = responseBodies \ {i}
  /\ \/ /\ pc' = [pc EXCEPT ![i] = "streamed"]
        /\ ops' = [ops EXCEPT ![i] = @ \o asyncResponseEnd(i)]
        /\ UNCHANGED onErrorCalls
     \/ /\ pc' = [pc EXCEPT ![i] = "failed"]
        /\ onErrorCalls' = [onErrorCalls EXCEPT ![i] = @ + 1]
        /\ UNCHANGED ops
  /\ UNCHANGED <<loop, ctxClosed, ridClosed, nextReq, inner, response, nread,
                 streamClosed, respHeaders>>
  /\ UNCHANGED flashVars
  /\ UNCHANGED callVars
  /\ UNCHANGED objVars

\* mapToCallback: `await asyncResponse(...)` returns, innerRequest.close()
FinishStream(i) ==
  /\ pc[i] = "streamed"
  /\ pc' = [pc EXCEPT ![i] = "done"]
  /\ inner' = [inner EXCEPT ![i] = close(@)]
  /\ ops' = [ops EXCEPT ![i] = @ \o << Op("close", i, 0) >>]
  /\ UNCHANGED <<loop, ctxClosed, ridClosed, nextReq, response, nread,
                 responseBodies, streamClosed, onErrorCalls, respHeaders>>
  /\ UNCHANGED flashVars
  /\ UNCHANGED callVars
  /\ UNCHANGED objVars

\* The abort listener of serve (registered once): context.closed = true and
\* core.tryClose(rid).
Abort ==
  /\ ~ctxClosed
  /\ ctxClosed' = TRUE
  /\ ridClosed' = TRUE
  /\ UNCHANGED <<loop, nextReq, pc, inner, response, ops, nread, responseBodies,
                 streamClosed, onErrorCalls, respHeaders>>
  /\ UNCHANGED flashVars
  /\ UNCHANGED callVars
  /\ UNCHANGED objVars

\* The wait loop ends: op_http_wait yields 0xffffffff or fails with BadResource
\* (the server resource is closed); break, then every response-stream rid still in
\* responseBodies is closed.
WaitEnds ==
  /\ loop = "waiting"
  /\ ridClosed
  /\ loop' = "ended"
  /\ streamClosed' = streamClosed \cup responseBodies
  /\ UNCHANGED <<ctxClosed, ridClosed, nextReq, pc, inner, response, ops, nread,
                 responseBodies, onErrorCalls, respHeaders>>
  /\ UNCHANGED flashVars
  /\ UNCHANGED callVars
  /\ UNCHANGED objVars

\* op_http_wait fails with another error: serve throws Deno.errors.Http and the
\* cleanup after the loop is not reached.
WaitFails ==
  /\ loop = "waiting"
  /\ loop' = "rejected"
  /\ UNCHANGED <<ctxClosed, ridClosed, nextReq, pc, inner, response, ops, nread,
                 responseBodies, streamClosed, onErrorCalls, respHeaders>>
  /\ UNCHANGED flashVars
  /\ UNCHANGED callVars
  /\ UNCHANGED objVars

Next ==
  \/ \E i \in Tokens : Dispatch(i)
  \/ \E i \in Tokens : UpgradeWhilePending(i)
  \/ \E i \in Tokens : Continue(i)
  \/ \E i \in Tokens : ReaderRead(i)
  \/ \E i \in Tokens : WriterWrite(i)
  \/ \E i \in Tokens : ReaderCancel(i)
  \/ \E i \in Tokens : FinishStream(i)
  \/ Abort
  \/ WaitEnds
  \/ WaitFails

Spec == Init /\ [][Next]_vars

\* A serve that receives a single request: the same steps, for the first token.
NextOne ==
  \/ Dispatch(1)
  \/ UpgradeWhilePending(1)
  \/ Continue(1)
  \/ ReaderRead(1)
  \/ WriterWrite(1)
  \/ ReaderCancel(1)
  \/ FinishStream(1)
  \/ Abort
  \/ WaitEnds
  \/ WaitFails

SpecOne == Init /\ [][NextOne]_vars

\* ------------------------------------------------------------ flash serve
\* A flash operation as issued: its name, the request token, the length of the
\* buffer submitted and the count of bytes the operation reports written.
FlashOp(name, rid, len, nwritten) ==
  [op |-> name, rid |-> rid, len |-> len, nwritten |-> nwritten]

\* the bytes of a response body of n bytes: byte b is named b
Raw(n) == [b \in 1..n |-> b]
SubRaw(n, from, to) == [b \in 1..(to - from + 1) |-> from + b - 1]

\* op_flash_try_write(rid, raw): the non-suspending write accepts the first k of
\* the n bytes and reports k
op_flash_try_write(rid, n, k) ==
  [issued |-> << FlashOp("op_flash_try_write", rid, n, k) >>, bytes |-> SubRaw(n, 1, k)]

\* op_flash_try_write_status_str(rid, status, str): the same for the status line
\* and the string body
op_flash_try_write_status_str(rid, status, n, k) ==
  [issued |-> << FlashOp("op_flash_try_write_status_str", rid, n, k) >>,
   bytes |-> SubRaw(n, 1, k)]

\* op_flash_write(rid, raw): the suspending write delivers every byte of the buffer
\* it is given
op_flash_write(rid, n) ==
  [issued |-> << FlashOp("op_flash_write", rid, n, n) >>, bytes |-> Raw(n)]

Both(x, y) == [issued |-> x.issued \o y.issued, bytes |-> x.bytes \o y.bytes]
Nothing == [issued |-> <<>>, bytes |-> <<>>]

\* writeResponseStr(rid, status, str) for a string of n characters of which the
\* try-write accepts k: its fallback write is commented out in the source
writeResponseStr(rid, status, n, k) ==
  op_flash_try_write_status_str(rid, status, n, k)

\* writeResponseBytes(rid, raw) for a buffer of n bytes of which the try-write
\* accepts k
writeResponseBytes(rid, n, k) ==
  IF k < n THEN Both(op_flash_try_write(rid, n, k), op_flash_write(rid, n))
  ELSE op_flash_try_write(rid, n, k)

FlashBodyKinds == {"text", "bytes", "stream", "null"}
\* the responses a handler gives the flash serve: body kind and body length
FlashResponses == [body : FlashBodyKinds, len : 0..MaxLen]

\* sendResponse(rid, response), the try-write accepting k bytes: what is written,
\* and whether it threw. A null body throws on innerResponse.body.streamOrStatic;
\* a body that is neither a string nor a byte buffer throws in responseType, which
\* names ReadableStreamPrototype and TY_STREAM without defining them.
sendResponse(rid, v, k) ==
  CASE v.body = "text"  -> [out |-> writeResponseStr(rid, OkStatus, v.len, k),
                            threw |-> FALSE]
    [] v.body = "bytes" -> [out |-> writeResponseBytes(rid, v.len, k), threw |-> FALSE]
    [] OTHER            -> [out |-> Nothing, threw |-> TRUE]

\* op_flash_start (runtime side): the request whose callback it invokes next,
\* while the server is driven and was not asked to close; requests are handed over
\* in arrival order
flashNext ==
  IF drive = "pending" /\ flashCloseOps = 0
    THEN {i \in Tokens : fpc[i] = "idle" /\ \A j \in 1..(i - 1) : fpc[j] # "idle"}
    ELSE {}

FlashHandlerEnds == {"return", "promise", "throw"}

\* The request callback's test on the value the handler returned for this request
\* (typeof response.then == "function" or a Promise): a thenable gets then/catch
\* attached, any other value goes to sendResponse at once.
isThenable(thenable) == IF thenable THEN "async" ELSE "sync"

\* The request callback given to op_flash_start runs for request i: the handler
\* throws (the exception leaves the callback), returns a thenable (then/catch are
\* attached) or returns a response, which sendResponse writes at once.
FlashDispatch(i) ==
  /\ i \in flashNext
  /\ \E h \in FlashHandlerEnds :
       \/ /\ h = "throw"
          /\ fpc' = [fpc EXCEPT ![i] = "thrown"]
          /\ UNCHANGED <<fops, wire, handled>>
       \/ /\ h = "promise"
          /\ fpc' = [fpc EXCEPT ![i] = "pending"]
          /\ handled' = [handled EXCEPT ![i] = [how |-> isThenable(TRUE), body |-> "none"]]
          /\ UNCHANGED <<fops, wire>>
       \/ /\ h = "return"
          /\ \E v \in FlashResponses : \E k \in 0..v.len :
               LET r == sendResponse(i, v, k) IN
               /\ handled' = [handled EXCEPT ![i] =
                    [how |-> isThenable(FALSE), body |-> v.body]]
               /\ fpc' = [fpc EXCEPT ![i] = IF r.threw THEN "thrown" ELSE "done"]
               /\ fops' = [fops EXCEPT ![i] = @ \o r.out.issued]
               /\ wire' = [wire EXCEPT ![i] = @ \o r.out.bytes]
  /\ UNCHANGED <<serverVars, date, fbody, others>>
  /\ UNCHANGED slabVars
  /\ UNCHANGED callVars

\* The handler's promise settles: fulfilled, sendResponse writes the result (an
\* exception of sendResponse goes to onError); rejected, onError is called. The
\* value onError returns is not used.
FlashSettle(i) ==
  /\ fpc[i] = "pending"
  /\ \/ \E v \in FlashResponses : \E k \in 0..v.len :
          LET r == sendResponse(i, v, k) IN
          /\ handled' = [handled EXCEPT ![i].body = v.body]
          /\ fpc' = [fpc EXCEPT ![i] = IF r.threw THEN "failed" ELSE "done"]
          /\ fops' = [fops EXCEPT ![i] = @ \o r.out.issued]
          /\ wire' = [wire EXCEPT ![i] = @ \o r.out.bytes]
     \/ /\ fpc' = [fpc EXCEPT ![i] = "failed"]
        /\ UNCHANGED <<fops, wire, handled>>
  /\ UNCHANGED <<serverVars, date, fbody, others>>
  /\ UNCHANGED slabVars
  /\ UNCHANGED callVars

\* ------------------------------------------------ flash serve: date loop
DateOps == {"op_flash_start_date_loop", "op_flash_stop_date_loop"}

\* op_flash_start_date_loop (runtime side): one more refresh loop runs
op_flash_start_date_loop(d) ==
  [d EXCEPT !.loops = @ + 1, !.issued = Append(@, "op_flash_start_date_loop")]

\* op_flash_stop_date_loop (runtime side): the refresh loop stops; the promise of
\* the stopped loop does not reject
op_flash_stop_date_loop(d) ==
  [d EXCEPT !.loops = IF @ > 0 THEN @ - 1 ELSE 0,
            !.issued = Append(@, "op_flash_stop_date_loop")]

\* the start without the test of the flag
startDateLoop_unguarded(d) ==
  op_flash_start_date_loop([d EXCEPT !.running = TRUE])

\* startDateLoop(), and the same statements at the head of the earlier createServe
startDateLoop(d) ==
  IF ~d.running
    THEN op_flash_start_date_loop([d EXCEPT !.running = TRUE])
    ELSE d

\* stopDateLoop()
stopDateLoop(d) ==
  IF d.running
    THEN [op_flash_stop_date_loop(d) EXCEPT !.running = FALSE]
    ELSE d

\* createServe() of the earlier version of the file: it starts the date loop
\* unless the flag says one is running.
CreateServe ==
  /\ Len(date.issued) < MaxDateOps
  /\ date' = startDateLoop(date)
  /\ UNCHANGED <<fbody, fpc, fops, wire, handled, others, serverVars>>
  /\ UNCHANGED slabVars
  /\ UNCHANGED callVars

\* The promise of op_flash_start_date_loop rejects (the loop failed): the catch
\* callback clears the flag.
DateLoopFails ==
  /\ date.loops > 0
  /\ date' = [date EXCEPT !.loops = @ - 1, !.running = FALSE]
  /\ UNCHANGED <<fbody, fpc, fops, wire, handled, others, serverVars>>
  /\ UNCHANGED slabVars
  /\ UNCHANGED callVars

\* ------------------------------------------- flash serve: server lifecycle
\* onListen returns: serve issues op_flash_drive(serverId) and initialises the
\* `server` object, then awaits the drive promise.
OnListenReturns ==
  /\ stage = "onListen"
  /\ stage' = "driving"
  /\ drive' = "pending"
  /\ UNCHANGED <<fbody, fpc, fops, wire, handled, others, serverClosed, flashCloseOps, aborted, finished, date>>
  /\ UNCHANGED slabVars
  /\ UNCHANGED callVars

\* server.close() up to its await: [closed, number of op_flash_close issued]
server_close(closed, n) ==
  IF closed THEN [closed |-> TRUE, n |-> n] ELSE [closed |-> TRUE, n |-> n + 1]

\* The abort listener (registered with once: true): stopDateLoop(), then
\* server.close(). While onListen runs, the binding `server` (a const declared
\* after the onListen call) is not initialised: reading it throws a
\* ReferenceError and the listener ends there.
FlashAbort ==
  /\ ~aborted
  /\ aborted' = TRUE
  /\ date' = stopDateLoop(date)
  /\ IF stage = "onListen"
       THEN UNCHANGED <<serverClosed, flashCloseOps>>
       ELSE LET c == server_close(serverClosed, flashCloseOps) IN
            /\ serverClosed' = c.closed
            /\ flashCloseOps' = c.n
  /\ UNCHANGED <<fbody, fpc, fops, wire, handled, others, stage, drive, finished>>
  /\ UNCHANGED slabVars
  /\ UNCHANGED callVars

\* op_flash_drive (runtime side): how its promise can settle: it rejects when the
\* server fails, and resolves once the server was closed.
op_flash_drive ==
  IF flashCloseOps > 0 THEN {"resolved", "rejected"} ELSE {"rejected"}

DriveSettles ==
  /\ drive = "pending"
  /\ \E o \in op_flash_drive : drive' = o
  /\ UNCHANGED <<fbody, fpc, fops, wire, handled, others, stage, serverClosed, flashCloseOps, aborted,
                 finished, date>>
  /\ UNCHANGED slabVars
  /\ UNCHANGED callVars

\* finishedPromise = PromisePrototypeCatch(serverPromise, () => {}) resolves once
\* the drive promise has settled either way.
FinishedResolves ==
  /\ drive \in {"resolved", "rejected"}
  /\ ~finished
  /\ finished' = TRUE
  /\ UNCHANGED <<fbody, fpc, fops, wire, handled, others, stage, drive, serverClosed, flashCloseOps,
                 aborted, date>>
  /\ UNCHANGED slabVars
  /\ UNCHANGED callVars

\* `await serverPromise` in serve ends (a rejection is logged): serve returns.
ServeReturns ==
  /\ stage = "driving"
  /\ drive \in {"resolved", "rejected"}
  /\ stage' = "returned"
  /\ UNCHANGED <<fbody, fpc, fops, wire, handled, others, drive, serverClosed, flashCloseOps, aborted,
                 finished, date>>
  /\ UNCHANGED slabVars
  /\ UNCHANGED callVars

NextFlash ==
  \/ \E i \in Tokens : FlashDispatch(i)
  \/ \E i \in Tokens : FlashSettle(i)
  \/ OnListenReturns
  \/ FlashAbort
  \/ DriveSettles
  \/ FinishedResolves
  \/ ServeReturns

SpecFlash == Init /\ [][NextFlash]_vars

\* The flash serve without requests, with createServe calls and date-loop failures.
\* serve is called again and binds another server (op_flash_start): the call
\* itself does nothing about the date loop.
ServeAnother ==
  /\ others < MaxServers
  /\ others' = others + 1
  /\ UNCHANGED <<fbody, fpc, fops, wire, handled, serverVars, date>>
  /\ UNCHANGED slabVars
  /\ UNCHANGED callVars

\* The signal of another server is aborted: its abort listener runs
\* stopDateLoop(), then closes that server.
AbortAnother ==
  /\ others > 0
  /\ others' = others - 1
  /\ date' = stopDateLoop(date)
  /\ UNCHANGED <<fbody, fpc, fops, wire, handled, serverVars>>
  /\ UNCHANGED slabVars
  /\ UNCHANGED callVars

NextDate ==
  \/ CreateServe
  \/ DateLoopFails
  \/ ServeAnother
  \/ AbortAnother
  \/ OnListenReturns
  \/ FlashAbort
  \/ DriveSettles
  \/ FinishedResolves
  \/ ServeReturns

SpecDate == Init /\ [][NextDate]_vars

\* ------------------------------------- request objects over the slab: steps
\* op_http_wait resolves with token t, a free slot the runtime has given to the
\* next request r; mapToCallback makes its InnerRequest and reads remoteAddr.
Deliver(r, t) ==
  /\ reqMethod[r] = "none"
  /\ \A q \in 1..(r - 1) : reqMethod[q] # "none"
  /\ slab[t] = 0
  /\ \E m \in Methods :
       /\ reqMethod' = [reqMethod EXCEPT ![r] = m]
       /\ slab' = [slab EXCEPT ![t] = r]
       /\ requests' = [requests EXCEPT ![r] =
            [NewObject(t) EXCEPT !.methodAndUri =
               [cached |-> TRUE, method |-> m, of |-> r]]]
  /\ UNCHANGED accessLog
  /\ UNCHANGED <<loop, ctxClosed, ridClosed, nextReq, pc, inner, response, ops,
                 nread, responseBodies, streamClosed, onErrorCalls, respHeaders>>
  /\ UNCHANGED flashVars
  /\ UNCHANGED callVars

\* The handler (or code that kept the request) calls an accessor of request r.
AccessRequest(r) ==
  /\ reqMethod[r] # "none"
  /\ Len(accessLog[r]) < MaxAccess
  /\ \E acc \in Accessors :
       LET a == Access(requests[r], acc, Len(accessLog[r]) + 1) IN
       /\ requests' = [requests EXCEPT ![r] = a.obj]
       /\ accessLog' = [accessLog EXCEPT ![r] = Append(@,
            [acc |-> acc, open |-> requests[r].inner.slabId # Undefined,
             res |-> a.res, of |-> a.of, n |-> a.n, issued |-> a.issued,
             tok |-> a.tok])]
  /\ UNCHANGED <<slab, reqMethod>>
  /\ UNCHANGED <<loop, ctxClosed, ridClosed, nextReq, pc, inner, response, ops,
                 nread, responseBodies, streamClosed, onErrorCalls, respHeaders>>
  /\ UNCHANGED flashVars
  /\ UNCHANGED callVars

\* mapToCallback (or upgradeWebSocket) calls innerRequest.close() on request r.
CloseRequest(r) ==
  /\ reqMethod[r] # "none"
  /\ requests[r].inner.slabId # Undefined
  /\ requests' = [requests EXCEPT ![r] = closeRequest(@)]
  /\ UNCHANGED <<slab, reqMethod, accessLog>>
  /\ UNCHANGED <<loop, ctxClosed, ridClosed, nextReq, pc, inner, response, ops,
                 nread, responseBodies, streamClosed, onErrorCalls, respHeaders>>
  /\ UNCHANGED flashVars
  /\ UNCHANGED callVars

\* The runtime releases slot t: the response of its request was written, or the
\* connection was torn down.
Recycle(t) ==
  /\ slab[t] # 0
  /\ slab' = [slab EXCEPT ![t] = 0]
  /\ UNCHANGED <<reqMethod, requests, accessLog>>
  /\ UNCHANGED <<loop, ctxClosed, ridClosed, nextReq, pc, inner, response, ops,
                 nread, responseBodies, streamClosed, onErrorCalls, respHeaders>>
  /\ UNCHANGED flashVars
  /\ UNCHANGED callVars

NextSlab ==
  \/ \E r \in Objs, t \in Tokens : Deliver(r, t)
  \/ \E r \in Objs : AccessRequest(r)
  \/ \E r \in Objs : CloseRequest(r)
  \/ \E t \in Tokens : Recycle(t)

SpecSlab == Init /\ [][NextSlab]_vars

\* ------------------------------------------ flash serve: request body steps
\* The request callback builds the request of a flash request: without a body
\* (op_flash_get_has_body is false) or with the stream createRequestBodyStream
\* makes, for a body of n bytes whose first f bytes came with the headers.
FlashRequestBody ==
  /\ fbody.state = "none"
  /\ \E n \in 0..MaxLen :
       IF n = 0
         THEN fbody' = [NoBodyStream EXCEPT !.state = "null",
                                            !.issued = << "op_flash_get_has_body" >>]
         ELSE \E f \in 0..n : fbody' = createRequestBodyStream(n, f)
  /\ UNCHANGED <<fpc, fops, wire, handled, others, serverVars, date>>
  /\ UNCHANGED slabVars
  /\ UNCHANGED callVars

\* The consumer of the body stream asks for data: pull(controller) runs.
Pull ==
  /\ fbody.state = "open"
  /\ \E read \in op_flash_read_body(fbody) : fbody' = pull(fbody, read)
  /\ UNCHANGED <<fpc, fops, wire, handled, others, serverVars, date>>
  /\ UNCHANGED slabVars
  /\ UNCHANGED callVars

\* One request of each serve and its body: the accessors of the InnerRequest
\* of the slab-based serve, the body stream of the flash serve.
NextBody ==
  \/ \E t \in Tokens : Deliver(1, t)
  \/ AccessRequest(1)
  \/ CloseRequest(1)
  \/ FlashRequestBody
  \/ Pull

SpecBody == Init /\ [][NextBody]_vars

\* ------------------------------------------------------- serve: start-up steps
\* serve is called on the flash serve: argsToOptions, then the start-up
FlashServe ==
  /\ serving.serve = "none"
  /\ \E arg1, arg2 \in ArgValues :
       LET r == argsToOptions(arg1, arg2) IN
       /\ args' = r
       /\ IF r.threw
            THEN UNCHANGED serving
            ELSE \E options \in OptionsOf(r.options), e \in 1..MaxPort, ok \in BOOLEAN :
                   serving' = flashServe(options, e, ok)
  /\ UNCHANGED <<sent, driver>>
  /\ UNCHANGED <<slabVars, flashVars>>

\* serve is called on the slab-based serve: the same argument resolution (its
\* first statements), then the start-up
SlabServe ==
  /\ serving.serve = "none"
  /\ \E arg1, arg2 \in ArgValues :
       LET r == argsToOptions(arg1, arg2) IN
       /\ args' = r
       /\ IF r.threw
            THEN UNCHANGED serving
            ELSE \E options \in OptionsOf(r.options), e \in 1..MaxPort, ok \in BOOLEAN :
                   serving' = slabServe(options, e, ok)
  /\ UNCHANGED <<sent, driver>>
  /\ UNCHANGED <<slabVars, flashVars>>

\* The runtime hands a request to the serve that awaits one (op_http_wait in the
\* wait loop, the promise of op_flash_drive) and the handler is invoked for it.
HandlerInvoked ==
  /\ serving.stage = "serving"
  /\ Len(serving.events) <= MaxReq
  /\ serving' = [serving EXCEPT !.events = Append(@, HandlerCall)]
  /\ UNCHANGED <<sent, args, driver>>
  /\ UNCHANGED <<slabVars, flashVars>>

\* The slow path of Deno.serve in unnamed/part_000: the handler's response has
\* the default type and createResponseString(res) is given to
\* op_flash_try_write_str.
SlowPath ==
  /\ \E res \in LiteralResponses, nowBound \in BOOLEAN :
       sent' = createResponseString(res, nowBound)
  /\ UNCHANGED <<serving, args, driver>>
  /\ UNCHANGED <<slabVars, flashVars>>

NextStart ==
  \/ FlashServe
  \/ SlabServe
  \/ HandlerInvoked
  \/ SlowPath

SpecStart == Init /\ [][NextStart]_vars

\* --------------------------------------- token-batch driver loop: steps
\* An iteration of the driver loop starts: nextRequest() reports n requests.
TryNext ==
  /\ driver.pc = "top"
  /\ Len(SelectSeq(driver.calls, LAMBDA c : c.op = "nextRequest")) < MaxIter
  /\ \E n \in 0..MaxBatch : driver' = tryNext(driver, n)
  /\ UNCHANGED <<serving, sent, args>>
  /\ UNCHANGED <<slabVars, flashVars>>

\* The suspending wait resolves with the requests that arrived.
NextAsyncResolves ==
  /\ driver.pc = "waiting"
  /\ \E m \in 0..MaxBatch : driver' = nextAsync(driver, m)
  /\ UNCHANGED <<serving, sent, args>>
  /\ UNCHANGED <<slabVars, flashVars>>

NextBatch ==
  \/ TryNext
  \/ NextAsyncResolves

SpecBatch == Init /\ [][NextBatch]_vars

\* =================================================================== claims
HasOp(log, name) == \E k \in 1..Len(log) : log[k][1] = name
CountOp(log, name) == Cardinality({k \in 1..Len(log) : log[k][1] = name})
\* the chunks given to writer.write, in order
RECURSIVE Written(_)
Written(log) ==
  IF log = <<>> THEN <<>>
  ELSE IF Head(log)[1] = "write" THEN <<Head(log)[3]>> \o Written(Tail(log))
  ELSE Written(Tail(log))
InPump == {"reading", "writing"}

\* C1: a request handle is closed (InnerRequest.close) only after the response
\* operations of its token were issued: no response operation follows the close in
\* any request, and for a request neither upgraded nor cut off by shutdown the
\* close comes after op_set_promise_complete for that token and, for a streamed
\* body, after the close of the response stream.
C1_CloseAfterResponseOps ==
  \A i \in Tokens : \A k \in 1..Len(ops[i]) :
    ops[i][k][1] = "close" =>
      /\ \A j \in (k + 1)..Len(ops[i]) : ops[i][j][1] \notin ResponseOpNames
      /\ (~inner[i].upgraded /\ pc[i] # "shutdown") =>
           /\ \E j \in 1..(k - 1) :
                ops[i][j][1] = "op_set_promise_complete" /\ ops[i][j][2] = i
           /\ HasOp(ops[i], "op_set_response_body_stream") =>
                \E j \in 1..(k - 1) : ops[i][j][1] = "stream_close"

\* C1 witness: a streamed response was pumped, its stream closed and then the
\* handle closed.
C1_Witness ==
  \E i \in Tokens :
    /\ pc[i] = "done" /\ ~inner[i].upgraded
    /\ HasOp(ops[i], "op_set_response_headers")
    /\ HasOp(ops[i], "write") /\ HasOp(ops[i], "stream_close")
    /\ ops[i][Len(ops[i])][1] = "close"

\* C7: once a handler has signalled an upgrade on a request, no header, body or
\* op_set_promise_complete operation is issued for it, whatever the handler
\* returns or throws afterwards.
C7_NoResponseAfterUpgrade ==
  \A i \in Tokens :
    inner[i].upgraded =>
      \A k \in 1..Len(ops[i]) : ops[i][k][1] \notin ResponseOpNames

\* C7 witness: the callback of a request upgraded to a WebSocket has ended, its
\* handler having thrown after the upgrade.
C7_Witness ==
  \E i \in Tokens :
    /\ inner[i].upgraded /\ pc[i] = "upgraded" /\ response[i] = "onError"
    /\ HasOp(ops[i], "op_upgrade")

C10_StreamInOrder ==
  [][\A i \in Tokens :
       /\ (pc[i] = "reading" /\ pc'[i] = "writing") =>
            Written(ops[i]) = [k \in 1..nread[i] |-> k]
       /\ (pc[i] = "reading" /\ pc'[i] = "streamed") =>
            /\ Written(ops'[i]) = [k \in 1..nread[i] |-> k]
            /\ ops'[i] = ops[i] \o << Op("stream_close", i, 0) >>
       /\ (pc[i] = "streamed" /\ pc'[i] = "done") =>
            /\ ops[i][Len(ops[i])][1] = "stream_close"
            /\ ops'[i] = ops[i] \o << Op("close", i, 0) >>
    ]_vars

\* C10 witness: every chunk of a producer was written in order, the stream was
\* closed and then the handle.
C10_Witness ==
  \E i \in Tokens :
    /\ pc[i] = "done" /\ nread[i] = MaxChunks
    /\ Written(ops[i]) = [k \in 1..MaxChunks |-> k]
    /\ HasOp(ops[i], "stream_close")

Complete(i, status) == Op("op_set_promise_complete", i, status)
InLog(log, op) == \E k \in 1..Len(log) : log[k] = op

C3_RejectionAnswered ==
  \A i \in Tokens :
    (pc[i] = "failed" /\ ~inner[i].upgraded) =>
      \E k \in 1..Len(ops[i]) :
        ops[i][k][1] = "op_set_promise_complete" /\ ops[i][k][2] = i

\* C4 as stated: on one keep-alive connection delivering A then B, every response
\* operation for A is issued before any response operation for B.
C4_ResponsesInRequestOrder ==
  \A a, b \in Tokens :
    (a < b /\ connection(a) = connection(b)
       /\ \E k \in 1..Len(ops[b]) : ops[b][k][1] \in ResponseOpNames) =>
      pc[a] \in Terminal

\* C8 as stated: upgradeWebSocket closes the request handle and issues op_upgrade
\* for the slab token of that same request.
C8_UpgradeOnOwnToken ==
  \A i \in Tokens : \A k \in 1..Len(ops[i]) :
    ops[i][k][1] = "op_upgrade" =>
      /\ ops[i][k][2] = i
      /\ \E j \in 1..Len(ops[i]) : ops[i][j] = Op("close", i, 0)

\* C5 as stated: for every inline response body, a try-write that accepts fewer
\* bytes than the response length is followed by a suspending write for the same
\* token, and a try-write that accepts the full length is followed by none.
TryWrites == {"op_flash_try_write", "op_flash_try_write_status_str"}
C5_ShortfallCompleted ==
  \A i \in Tokens : \A k \in 1..Len(fops[i]) :
    fops[i][k].op \in TryWrites =>
      LET later == {j \in (k + 1)..Len(fops[i]) :
                      fops[i][j].op = "op_flash_write" /\ fops[i][j].rid = fops[i][k].rid}
      IN IF fops[i][k].nwritten < fops[i][k].len THEN later # {} ELSE later = {}

AsyncResponseEnded(i) ==
  /\ HasOp(ops[i], "op_set_response_body_stream")
  /\ pc[i] \in {"streamed", "done", "failed"}

\* C11 as stated: when reading from the producer or writing a chunk fails in
\* asyncResponse, the read side is cancelled and the response-stream write side is
\* still closed in every case, also when cancelling the reader fails, and the
\* response-stream resource is removed from responseBodies.
C11_WriteSideClosedOnFailure ==
  \A i \in Tokens :
    AsyncResponseEnded(i) =>
      /\ HasOp(ops[i], "stream_close")
      /\ i \notin responseBodies

\* C12 as stated: a request whose handler was invoked before the abort still has
\* its response written once its handler completes: op_set_promise_complete is
\* issued for its token.
C12_InFlightAnsweredAfterAbort ==
  \A i \in Tokens :
    pc[i] = "shutdown" =>
      \E k \in 1..Len(ops[i]) :
        ops[i][k][1] = "op_set_promise_complete" /\ ops[i][k][2] = i

\* C13 as stated: after shutdown, once every handler promise has settled, every
\* request handle made by mapToCallback is closed and every response-stream
\* resource that was added to responseBodies is closed.
C13_AllClosedAfterShutdown ==
  (loop = "ended" /\ \A i \in Tokens : pc[i] \in Terminal \cup {"idle"}) =>
    \A i \in Tokens :
      pc[i] # "idle" =>
        /\ inner[i].slabId = Undefined
        /\ HasOp(ops[i], "op_set_response_body_stream") =>
             (HasOp(ops[i], "stream_close") \/ i \in streamClosed)

\* C14 as stated: whenever the signal is aborted after serve has bound the
\* listener, also while the onListen hook runs, the listening resource is closed:
\* op_flash_close(serverId) (flash serve) or core.tryClose(rid) (slab-based serve)
\* is issued, exactly once.
C14_AbortClosesListener ==
  /\ aborted => flashCloseOps = 1
  /\ ctxClosed => ridClosed

\* C15 as stated: the `finished` promise of the flash server resolves only after
\* op_flash_drive has settled and every in-flight request was answered: never
\* while the handler of a delivered request is still pending.
C15_FinishedAfterDrain ==
  finished =>
    /\ drive \in {"resolved", "rejected"}
    /\ \A i \in Tokens : fpc[i] # "pending"

BodyAccesses(r) == {k \in 1..Len(accessLog[r]) : accessLog[r][k].acc = "body"}
CountIn(log, name) == Cardinality({k \in 1..Len(log) : log[k] = name})
ReadBodyOps(r) ==
  Cardinality({k \in 1..Len(accessLog[r]) :
                 accessLog[r][k].issued = "op_read_request_body"})

\* C17 as stated: for a request whose method is GET or HEAD the body accessor
\* returns null on every access and op_read_request_body is never issued for it.
C17_NullBodyOnEveryAccess ==
  \A r \in Objs :
    reqMethod[r] \in {"GET", "HEAD"} =>
      /\ \A k \in BodyAccesses(r) : accessLog[r][k].res = "null"
      /\ ReadBodyOps(r) = 0

\* C17 amended: for a request whose method is GET or HEAD the body accessor
\* returns null on every access made while the request handle is open and throws
\* ("request closed") on every access made after close(); op_read_request_body is
\* never issued for it.
C17_NullBodyWhileOpen ==
  \A r \in Objs :
    reqMethod[r] \in {"GET", "HEAD"} =>
      /\ \A k \in BodyAccesses(r) :
           accessLog[r][k].res = IF accessLog[r][k].open THEN "null" ELSE "throw"
      /\ ReadBodyOps(r) = 0

\* C17 witness: the body of a HEAD request was read twice while the handle was
\* open.
C17_Witness ==
  \E r \in Objs :
    /\ reqMethod[r] = "HEAD"
    /\ Len(accessLog[r]) = 2
    /\ \A k \in 1..2 : accessLog[r][k].acc = "body" /\ accessLog[r][k].open

\* C18 as stated: over the accesses to the body of one request the body stream
\* is obtained at most once (op_read_request_body per InnerRequest,
\* op_flash_first_packet per flash request) and every access returns the same
\* body object.
C18_OneBodyEveryAccess ==
  /\ \A r \in Objs :
       /\ ReadBodyOps(r) <= 1
       /\ \A j, k \in BodyAccesses(r) :
            /\ accessLog[r][j].res = accessLog[r][k].res
            /\ accessLog[r][j].of = accessLog[r][k].of
            /\ accessLog[r][j].n = accessLog[r][k].n
  /\ CountIn(fbody.issued, "op_flash_first_packet") <= 1

\* C18 amended: the body stream is obtained at most once (op_read_request_body
\* per InnerRequest, op_flash_first_packet per flash request) and every access
\* made while the request handle is open returns the same body object; an access
\* made after close() throws and returns no body.
C18_OneBodyWhileOpen ==
  /\ \A r \in Objs :
       /\ ReadBodyOps(r) <= 1
       /\ \A j, k \in BodyAccesses(r) :
            (accessLog[r][j].open /\ accessLog[r][k].open) =>
              /\ accessLog[r][j].res = accessLog[r][k].res
              /\ accessLog[r][j].of = accessLog[r][k].of
              /\ accessLog[r][j].n = accessLog[r][k].n
       /\ \A k \in BodyAccesses(r) : ~accessLog[r][k].open => accessLog[r][k].res = "throw"
  /\ CountIn(fbody.issued, "op_flash_first_packet") <= 1

\* C18 witness: the body of a POST request was read twice while the handle was
\* open, and a flash request got its body stream.
C18_Witness ==
  /\ \E r \in Objs :
       /\ reqMethod[r] = "POST"
       /\ Len(accessLog[r]) = 2
       /\ \A k \in 1..2 : /\ accessLog[r][k].acc = "body"
                          /\ accessLog[r][k].res = "value"
  /\ fbody.state = "open"

\* C19 as stated: the body stream of a flash request yields the first packet
\* first and once (skipped when empty), then every chunk op_flash_read_body
\* returns, once each and in order, and closes at the first read that returns 0:
\* what it has yielded is always a prefix of the n body bytes, it never fails
\* while the transport delivers, and once closed it has yielded exactly the n bytes.
C19_BodyStreamExact ==
  /\ fbody.state # "errored"
  /\ fbody.yielded = [x \in 1..Len(fbody.yielded) |-> x]
  /\ fbody.state = "closed" => fbody.yielded = [x \in 1..fbody.n |-> x]

\* C20 as stated: nothing cached for the previous occupant of a slab token is
\* observable through the request of the next occupant, and a request object kept
\* from the previous occupant never reads the new occupant's method, URL, headers
\* or body: every value an accessor of a request returns is that request's own.
C20_NoCrossOccupantData ==
  \A r \in Objs :
    /\ requests[r].methodAndUri.cached => requests[r].methodAndUri.of = r
    /\ \A k \in 1..Len(accessLog[r]) :
         accessLog[r][k].res = "value" => accessLog[r][k].of = r

\* the header operations issued for a request, in issue order
HeaderOpNames == {"op_set_response_header", "op_set_response_headers"}
HeaderOpsIssued(log) == SelectSeq(log, LAMBDA o : o[1] \in HeaderOpNames)
BodyOrCompleteNames ==
  {"op_set_response_body_bytes", "op_set_response_body_text",
   "op_set_response_body_resource", "op_set_response_body_stream",
   "op_set_promise_complete"}

\* C22: for each response mapToCallback writes, at most one header operation is
\* issued for the token: none when the header list is empty, one
\* op_set_response_header when it has exactly one pair, one
\* op_set_response_headers carrying the whole list when it has two or more, and
\* it precedes the body operation and op_set_promise_complete.
C22_OneHeaderOp ==
  \A i \in Tokens :
    LET hs == HeaderOpsIssued(ops[i])
        n == respHeaders[i]
    IN
    /\ Len(hs) <= 1
    /\ n \in {NotRead, 0} <=> hs = <<>>
    /\ n = 1 => hs = << Op("op_set_response_header", i, 1) >>
    /\ n >= 2 => hs = << Op("op_set_response_headers", i, n) >>
    /\ \A j, k \in 1..Len(ops[i]) :
         (ops[i][j][1] \in HeaderOpNames /\ ops[i][k][1] \in BodyOrCompleteNames)
           => j < k

\* a response with the longest header list and an inline body was written and
\* marked complete
C22_Witness ==
  /\ pc[1] = "done"
  /\ respHeaders[1] = MaxHeaders
  /\ HasOp(ops[1], "op_set_response_headers")
  /\ HasOp(ops[1], "op_set_response_body_text")
  /\ HasOp(ops[1], "op_set_promise_complete")

\* C24 as stated: when onError itself throws while handling a handler failure,
\* only the failing request ends: the serve loop keeps waiting for requests, so
\* later requests are still dispatched to the handler.
C24_OnErrorThrowKeepsServing ==
  [][\A i \in Tokens :
       (pc[i] = "idle" /\ pc'[i] = "thrown") => loop' = "waiting"]_vars

\* C30: the serve loop invokes the handler for the next request without waiting
\* for the promises of earlier handlers: while serve has not ended, a request the
\* runtime has ready can be dispatched whatever the positions of the earlier
\* callbacks, and a callback whose response has settled can answer whatever the
\* others do.
C30_HandlersOverlap ==
  /\ \A i \in Tokens :
       (i \in op_http_wait /\ loop \notin {"ended", "rejected"}) => ENABLED Dispatch(i)
  /\ \A i \in Tokens : pc[i] = "awaiting" => ENABLED Continue(i)

\* the handler of the first request has not settled, the second request was
\* dispatched after it and is answered
C30_Witness ==
  /\ pc[1] = "awaiting"
  /\ pc[2] = "done"
  /\ HasOp(ops[2], "op_set_promise_complete")

\* C23 as stated: for every response a handler returns, the body is written for
\* the request's token in the representation of its variant: a string through the
\* status-string write, a byte buffer through the byte write, a stream through
\* some write of its chunks.
C23_BodyVariantWritten ==
  \A i \in Tokens :
    /\ handled[i].body = "text" =>
         \E k \in 1..Len(fops[i]) : fops[i][k].op = "op_flash_try_write_status_str"
    /\ handled[i].body = "bytes" =>
         \E k \in 1..Len(fops[i]) : fops[i][k].op = "op_flash_try_write"
    /\ handled[i].body = "stream" => fops[i] # <<>>

\* C25 as stated: the handler is classified synchronous or asynchronous once,
\* when it is bound: every request of one serve has the handler's result treated
\* the same way.
C25_ClassifiedOnce ==
  \A i, j \in Tokens :
    (handled[i].how # "none" /\ handled[j].how # "none")
      => handled[i].how = handled[j].how

\* C29 as stated: after close(), every accessor that would have to consult the
\* slab (body, headerList, headers, and method when its value is not cached)
\* fails with the 'request closed' TypeError, and no operation is issued with a
\* slab token through the request or through an object obtained from it.
C29_ClosedRequestThrows ==
  \A r \in Objs : \A k \in 1..Len(accessLog[r]) :
    LET e == accessLog[r][k] IN
    ~e.open =>
      /\ e.acc \in {"body", "headerList", "headers"} => e.res = "throw"
      /\ e.acc = "method" => (e.res = "throw" \/ e.issued = "none")
      /\ e.issued # "none" => e.tok = Undefined

\* the events of one kind among the onListen and handler calls of the serve
EventsOf(kind) == {k \in 1..Len(serving.events) : serving.events[k].ev = kind}

\* C21: serve called with exactly one of options.cert and options.key throws the
\* TypeError and binds nothing (no start or listen operation is issued, no
\* listener address exists, nothing is called); with both or with neither it goes
\* on to issue its bind operation.
C21_CertAndKeyTogether ==
  serving.serve # "none" =>
    IF given(serving.options.cert) # given(serving.options.key)
      THEN /\ serving.stage = "threw"
           /\ serving.issued = <<>>
           /\ serving.addr = NoAddr
           /\ serving.events = <<>>
      ELSE /\ serving.stage # "threw"
           /\ serving.issued # <<>>
           /\ serving.issued[1].op \in BindOps
           /\ serving.issued[1].op = "Deno.listenTls" <=>
                (serving.serve = "slab" /\ given(serving.options.cert))

\* serve was called with a certificate and no key, and threw
C21_Witness ==
  /\ serving.serve = "slab"
  /\ given(serving.options.cert)
  /\ ~given(serving.options.key)
  /\ serving.stage = "threw"

\* C26: onListen is invoked exactly once per successful serve call, after the
\* listener is bound and before the handler is invoked for any request, with the
\* port the listener was actually bound to; a serve call that throws or fails to
\* bind does not invoke it.
C26_OnListenOnceWithBoundPort ==
  IF serving.stage = "serving"
    THEN /\ Cardinality(EventsOf("onListen")) = 1
         /\ serving.events[1] = OnListen(serving.addr.port)
         /\ serving.addr.port # 0
         /\ serving.issued[1].op \in BindOps
    ELSE serving.events = <<>>

\* a serve asked to bind port 0 called onListen with the port it got, then its
\* handler for a request
C26_Witness ==
  /\ serving.serve = "flash"
  /\ serving.options.port = 0
  /\ Len(serving.events) >= 2
  /\ serving.events[1].ev = "onListen"
  /\ serving.events[1].port = serving.addr.port
  /\ serving.events[2].ev = "handler"

\* C27 as stated: with options.hostname omitted serve binds the loopback address,
\* with options.port omitted it binds its one fixed default port, and supplied
\* values are passed to the bind operation unchanged.
C27_DefaultsAndPassThrough ==
  serving.issued # <<>> =>
    LET bind == serving.issued[1]
        default == IF serving.serve = "flash" THEN FlashDefaultPort ELSE SlabDefaultPort
    IN
    /\ bind.hostname = IF serving.options.hostname = Omitted THEN Loopback
                       ELSE serving.options.hostname
    /\ bind.port = IF serving.options.port = NoPort THEN default
                   ELSE serving.options.port

\* C28 as stated: the text createResponseString builds has exactly one status
\* line, carrying the status of the response, a Content-Length equal to the
\* length of the body, and the body unchanged, for every status and body.
C28_SerializedMatchesBody ==
  (sent.made /\ ~sent.threw) =>
    /\ sent.text.statusLines = << sent.res.status >>
    /\ sent.text.contentLength = Len(sent.res.body)
    /\ sent.text.body = sent.res.body

\* C32 as stated: a request is treated as upgraded, and left without an HTTP
\* response, only if an upgrade was actually started for it (op_upgrade was
\* issued): a request whose upgrade call threw is still answered.
C32_UpgradedOnlyIfStarted ==
  \A i \in Tokens :
    /\ inner[i].upgraded => HasOp(ops[i], "op_upgrade")
    /\ pc[i] = "upgraded" => HasOp(ops[i], "op_upgrade")

\* the last entry of the access log of request r
LastAccess(log) == log[Len(log)]

\* C33 as stated: a header lookup through the headers accessor issues
\* op_get_request_header with the slab token of the request it was obtained from,
\* and the accessor object, once made, is the one every later access returns.
C33_HeaderLookupUsesOwnToken ==
  [][\A r \in Objs :
       /\ (Len(accessLog'[r]) = Len(accessLog[r]) + 1
             /\ LastAccess(accessLog'[r]).acc = "headers.get"
             /\ LastAccess(accessLog'[r]).open) =>
            /\ LastAccess(accessLog'[r]).issued = "op_get_request_header"
            /\ LastAccess(accessLog'[r]).tok = requests[r].inner.slabId
       /\ requests[r].headers.made => requests'[r].headers = requests[r].headers
    ]_vars

\* C35: for every token delivered the handler is invoked exactly once (with the
\* one read of remoteAddr that goes with the call, and `response` assigned once)
\* and op_set_promise_complete is issued at most once; a callback that has ended,
\* also by a failure, issues nothing more.
C35_NoRetry ==
  [][\A i \in Tokens :
       /\ CountOp(ops'[i], "op_set_promise_complete") <= 1
       /\ CountOp(ops'[i], "op_get_request_method_and_url")
            = IF pc'[i] = "idle" THEN 0 ELSE 1
       /\ pc[i] # "idle" => (pc'[i] # "idle" /\ response'[i] = response[i])
       /\ pc[i] \in Terminal => (pc'[i] = pc[i] /\ ops'[i] = ops[i])
    ]_vars

\* a streamed response was marked complete, then its stream failed and the
\* cancel of the reader failed too: onError ran, nothing was completed again
C35_Witness ==
  /\ pc[1] = "failed"
  /\ onErrorCalls[1] = 1
  /\ CountOp(ops[1], "op_set_promise_complete") = 1
  /\ HasOp(ops[1], "op_set_response_body_stream")

\* C37 as stated: the wait loop ends normally only when the server resource was
\* closed (op_http_wait yields the sentinel or fails with BadResource), and on
\* every way of leaving the loop every response-stream resource still in
\* responseBodies is closed.
C37_LoopExitClosesStreams ==
  /\ loop = "ended" => ridClosed
  /\ loop \in {"ended", "rejected"} => responseBodies \subseteq streamClosed

\* C34 as stated: while at least one server started by the flash serve is still
\* serving (bound and not aborted), the date-refresh loop is running; aborting
\* one server does not stop it while another still serves.
C34_DateLoopWhileServing ==
  ((~aborted /\ drive \in {"none", "pending"}) \/ others > 0) => date.loops > 0

\* the requests the calls of the driver loop have reported so far
RECURSIVE Reported(_)
Reported(calls) ==
  IF calls = <<>> THEN 0
  ELSE (IF Head(calls).n = NoCount THEN 0 ELSE Head(calls).n) + Reported(Tail(calls))

\* C31: in the token-batch driver loop the suspending wait is issued only right
\* after a nextRequest() that reported 0, and over any sequence of batch sizes
\* `offset` equals the total of the requests reported so far and the indices
\* responded to are 0..offset-1, each once and in increasing order.
C31_BatchesContiguous ==
  /\ \A k \in 1..Len(driver.calls) :
       driver.calls[k].op = "op_flash_next_async" =>
         /\ k > 1
         /\ driver.calls[k - 1] = BatchCall("nextRequest", 0)
  /\ \A k \in 1..Len(driver.calls) :
       (driver.calls[k] = BatchCall("nextRequest", 0)) =>
         (k < Len(driver.calls) /\ driver.calls[k + 1].op = "op_flash_next_async")
  /\ driver.offset = Reported(driver.calls)
  /\ driver.responded = [k \in 1..driver.offset |-> k - 1]

\* a batch from nextRequest, then an empty nextRequest and a batch from the
\* suspending wait, were responded to
C31_Witness ==
  /\ driver.pc = "top"
  /\ Len(driver.calls) = 3
  /\ driver.calls[1] = BatchCall("nextRequest", MaxBatch)
  /\ driver.calls[2] = BatchCall("nextRequest", 0)
  /\ driver.calls[3] = BatchCall("op_flash_next_async", MaxBatch)
  /\ Len(driver.responded) = 2 * MaxBatch

\* the handler the two arguments name: a function in either position, the first
\* one first; otherwise the handler field of an options object given first
NamedHandler(arg1, arg2) ==
  IF arg1.type = "function" THEN arg1
  ELSE IF arg2.type = "function" THEN arg2
  ELSE IF arg1.type = "object" THEN handlerField(arg1)
  ELSE Undef

====
